---- MODULE Spec2Model ----
(***************************************************************************)
(* A model of the af_packet receive ring (rx/mod.rs, rx/async/tokio.rs,    *)
(* socket.rs, tpacket3.rs): the block ring shared with the kernel, the     *)
(* cursor, the Block / RawPacketsConsumingIter / RawPacket values a caller *)
(* holds, the blocking and the async recv_block loops, and RingBuilder.    *)
(***************************************************************************)
EXTENDS Integers, Sequences, FiniteSets, Bags, TLC

\* ---------------------------------------------------------------- bounds
\* tp_block_nr of the modelled ring (the default 10000 is far out of reach)
NBlocks == 2
\* how many Block / iterator values the caller may hold at once
MaxViews == 2
\* how many blocks recv_block hands out in one behaviour
MaxRecv == 3
\* largest num_pkts the kernel writes into a block header
MaxPkts == 1
\* how many RawPacket values the caller keeps at once
MaxHeld == 1
\* the Sockets taken with Ring::socket that are alive at a time
MaxClones == 1
\* the most records in a block walked by a packet iterator
MaxRecs == 3

\* ------------------------------------------------------ program constants
TP_STATUS_KERNEL == 0
TP_STATUS_USER == 1
\* a further status bit the kernel may set beside TP_STATUS_USER
TP_STATUS_LOSING == 4

\* libc::IFF_PROMISC
IFF_PROMISC == 256

Slots == 0 .. (NBlocks - 1)

VARIABLES
    blocks,     \* the mmap'd ring: slot -> [block_status, num_pkts] (TpacketBDHeader)
    cur_idx,    \* Ring.cur_idx
    kidx,       \* the slot the kernel fills next
    views,      \* the bag of Block and RawPacketsConsumingIter values the caller holds
    pkts,       \* the RawPacket values the caller holds: [slot, idx]
    handed,     \* the slots recv_block has returned, in order
    filled,     \* the slots the kernel has closed, in order: [on, slots]
    rpc,        \* where the blocking recv_block is: "idle", "check", "poll"
    apc,        \* where the async recv_block is: "idle", "check", "await", "guard"
    rdy,        \* AsyncFd's readiness flag
    sig,        \* a kernel readiness event not yet seen by the reactor
    ares,       \* what the last async recv_block returned
    cfg,        \* RingBuilder: [non_blocking, promiscuous, bpf]
    bpc,        \* where the builder is: "new", "prepare", "init", "done", "failed"
    bstep,      \* the statement of prepare_socket that is next (index in PrepareOrder)
    calls,      \* the kernel calls the builder has made, in order
    built,      \* what the builder returned: "none", "ring", "async_ring"
    sock,       \* Socket: [fd ("none", "open", "closed"), if_index, clones (Sockets taken
                \* with Ring::socket and alive), dropped (the Ring was dropped)]
    opts,       \* RingBuilder.opts, Ring.opts: TpacketReq3, sizes in units of 1024 bytes
    fan,        \* [method (RingBuilder.fanout_method), pid (getpid())]
    kern,       \* what the kernel was given: [rx_ring_frame_nr, fanout, bound_index], -1 not yet
    err,        \* [failed (the step that failed), returned (the step whose error the caller got)]
    blk,        \* one block as the kernel wrote it: [num_pkts, offset_to_first_pkt, blk_len,
                \* hdrs (record offset -> [tp_next_offset, tp_mac])]
    it,         \* a RawPacketIter over blk: [next_offset, cur_next_offset, cur_idx, count,
                \* ret (what the last next() returned), panicked]
    out,        \* the RawPackets the iterator has yielded, in order
    spc,        \* where Stream::poll_read is: "idle", "check", "next", "poll", "panicked"
    sres,       \* what the last poll_read returned: "none", "ok", "pending", "err"
    sbuf,       \* what the running or last poll_read has put into buf
    ifc,        \* the network interface: [flags, before, writes, big_endian]
    sat,        \* a call of buffer_saturation_threshold: [nr, ready, cur, step_percent, ret]
    satb        \* a second call, made in a ring state with at least the ripe blocks of sat

ringvars == <<blocks, cur_idx, kidx, views, pkts, handed, filled>>
blockingvars == <<rpc>>
asyncvars == <<apc, rdy, sig, ares>>
setupvars == <<sock, opts, fan, kern, err>>
buildvars == <<cfg, bpc, bstep, calls, built, sock, opts, fan, kern, err>>
pktvars == <<blk, it, out>>
satvars == <<sat, satb>>
ifvars == <<ifc>>
streamvars == <<spc, sres, sbuf>>
vars == <<blocks, cur_idx, kidx, views, pkts, handed, filled, rpc, apc, rdy, sig, ares,
          cfg, bpc, bstep, calls, built, sock, opts, fan, kern, err, blk, it, out, sat,
          satb, ifc, spc, sres, sbuf>>

\* ------------------------------------------------------------ rx/mod.rs

\* Block: a view of one ring slot (desc + raw_data)
BlockView(s) == [kind |-> "block", slot |-> s, idx |-> 0, count |-> 0]

\* RawPacketsConsumingIter(RawPacketIter { cur_idx: 0, count: num_pkts }, block)
IterView(s, n) == [kind |-> "iter", slot |-> s, idx |-> 0, count |-> n]

\* RawPacket: header + payload of record idx of a slot
RawPacket(s, i) == [slot |-> s, idx |-> i]

\* the views the caller holds, one by one
Held == BagToSet(views)
With(r) == views (+) SetToBag({r})
Without(r) == views (-) SetToBag({r})
Replaced(r, q) == (views (-) SetToBag({r})) (+) SetToBag({q})

\* RawBlock::is_ready: (block_status & TP_STATUS_USER) != 0
IsReadyInverted(b) == (b.block_status % (2 * TP_STATUS_USER)) < TP_STATUS_USER
IsReady(b) == (b.block_status % (2 * TP_STATUS_USER)) >= TP_STATUS_USER

\* Ring::check_current_block, the cursor: advanced, modulo tp_block_nr, only
\* when the block at the cursor is ready
CursorAlwaysAdvanced(ready, i) == (i + 1) % NBlocks
CursorAfterCheck(ready, i) == IF ready THEN (i + 1) % NBlocks ELSE i

\* Ring::check_current_block, the result: Some(slot at the cursor) or None
CheckedNextSlot(ready, i) == IF ready THEN {(i + 1) % NBlocks} ELSE {}
CheckedSlot(ready, i) == IF ready THEN {i} ELSE {}

\* Block::consume writes this status word
ConsumeWritesUser == TP_STATUS_USER
ConsumedStatus == TP_STATUS_KERNEL

\* the header of a block the kernel owns is the kernel's to rewrite at any
\* time: the model keeps no num_pkts for it, and a read of it returns any value
Returned(b, st) == [block_status |-> st,
                    num_pkts |-> IF st = TP_STATUS_KERNEL THEN 0 ELSE b.num_pkts]
NumPkts(b) == IF b.block_status = TP_STATUS_KERNEL THEN 0 .. MaxPkts ELSE {b.num_pkts}

\* Block has no Drop impl: dropping a Block writes nothing into the ring
BlockDropConsumes(v) == [blocks EXCEPT ![v.slot] = Returned(@, TP_STATUS_KERNEL)]
BlocksAfterBlockDrop(v) == blocks

\* the log of the slots the kernel closed, in the order it closed them, kept
\* in the runs that watch the kernel
FillLogged(log, s) == IF log.on THEN [log EXCEPT !.slots = Append(@, s)] ELSE log

\* the kernel closes the block at kidx: only a block whose status is KERNEL,
\* in ring order; it writes the header, sets the USER bit last, and signals
\* the descriptor
KernelFill(n, st) ==
    /\ blocks[kidx].block_status = TP_STATUS_KERNEL
    /\ blocks' = [blocks EXCEPT ![kidx] = [block_status |-> st, num_pkts |-> n]]
    /\ kidx' = (kidx + 1) % NBlocks
    /\ filled' = FillLogged(filled, kidx)
    /\ sig' = TRUE
    /\ UNCHANGED <<cur_idx, views, pkts, handed, rpc, apc, rdy, ares, buildvars, pktvars, satvars, ifvars, streamvars>>

\* poll() reports POLLIN while the block the kernel closed last has not been
\* returned to it
SockReadable == blocks[(kidx + NBlocks - 1) % NBlocks].block_status # TP_STATUS_KERNEL

\* Ring::recv_block is called: the loop is entered
RecvCall ==
    /\ rpc = "idle"
    /\ apc = "idle"
    /\ Len(handed) < MaxRecv
    /\ BagCardinality(views) < MaxViews
    /\ rpc' = "check"
    /\ UNCHANGED <<ringvars, asyncvars, buildvars, pktvars, satvars, ifvars, streamvars>>

\* one turn of the loop of recv_block: check_current_block, then either
\* return block.into() or go on to wait_for_block
RecvCheck ==
    /\ rpc = "check"
    /\ LET ready == IsReady(blocks[cur_idx])
           got == CheckedSlot(ready, cur_idx)
       IN  /\ cur_idx' = CursorAfterCheck(ready, cur_idx)
           /\ IF got # {}
              THEN LET s == CHOOSE x \in got : TRUE
                   IN  /\ views' = With(BlockView(s))
                       /\ handed' = Append(handed, s)
                       /\ rpc' = "idle"
              ELSE /\ rpc' = "poll"
                   /\ UNCHANGED <<views, handed>>
    /\ UNCHANGED <<blocks, kidx, filled, pkts, asyncvars, buildvars, pktvars, satvars, ifvars, streamvars>>

\* recv_block goes round its loop whatever poll() returned
AfterPollAbortOnError(res) == IF res < 0 THEN "idle" ELSE "check"
AfterPoll(res) == "check"

\* Ring::wait_for_block: poll(fd, POLLIN | POLLERR, -1) returns 1 when the
\* descriptor is readable, or -1 (a signal, an error); the result is dropped
PollReturn(res) ==
    /\ rpc = "poll"
    /\ res = 1 => SockReadable
    /\ rpc' = AfterPoll(res)
    /\ UNCHANGED <<ringvars, asyncvars, buildvars, pktvars, satvars, ifvars, streamvars>>

\* Block::consume
Consume(v) ==
    /\ v.kind = "block"
    /\ blocks' = [blocks EXCEPT ![v.slot] = Returned(@, ConsumedStatus)]
    /\ UNCHANGED <<cur_idx, kidx, filled, views, pkts, handed, blockingvars, asyncvars, buildvars, pktvars, satvars, ifvars, streamvars>>

\* a Block goes out of scope
DropBlock(v) ==
    /\ v.kind = "block"
    /\ blocks' = BlocksAfterBlockDrop(v)
    /\ views' = Without(v)
    /\ UNCHANGED <<cur_idx, kidx, filled, pkts, handed, blockingvars, asyncvars, buildvars, pktvars, satvars, ifvars, streamvars>>

\* Block::get_raw_packets / raw_packets_iter: the caller reads record i of
\* the block and keeps the RawPacket
GetRawPackets(v, i) ==
    /\ v.kind = "block"
    /\ \E n \in NumPkts(blocks[v.slot]) : i < n
    /\ Cardinality(pkts) < MaxHeld
    /\ pkts' = pkts \cup {RawPacket(v.slot, i)}
    /\ UNCHANGED <<blocks, cur_idx, kidx, filled, views, handed, blockingvars, asyncvars, buildvars, pktvars, satvars, ifvars, streamvars>>

\* Block::into_raw_packets_iter: the Block moves into the iterator
IntoRawPacketsIter(v) ==
    /\ v.kind = "block"
    /\ \E n \in NumPkts(blocks[v.slot]) : views' = Replaced(v, IterView(v.slot, n))
    /\ UNCHANGED <<blocks, cur_idx, kidx, filled, pkts, handed, blockingvars, asyncvars, buildvars, pktvars, satvars, ifvars, streamvars>>

\* RawPacketsConsumingIter::next -> RawPacketIter::next (current, then
\* flush_current); the caller keeps the RawPacket or lets it go
IterNext(v, keep) ==
    /\ v.kind = "iter"
    /\ IF v.idx >= v.count
       THEN UNCHANGED <<views, pkts>>
       ELSE /\ views' = Replaced(v, [v EXCEPT !.idx = @ + 1])
            /\ pkts' = IF keep /\ Cardinality(pkts) < MaxHeld
                       THEN pkts \cup {RawPacket(v.slot, v.idx)}
                       ELSE pkts
    /\ UNCHANGED <<blocks, cur_idx, kidx, filled, handed, blockingvars, asyncvars, buildvars, pktvars, satvars, ifvars, streamvars>>

\* impl Drop for RawPacketsConsumingIter: self.1.consume()
DropIter(v) ==
    /\ v.kind = "iter"
    /\ blocks' = [blocks EXCEPT ![v.slot] = Returned(@, ConsumedStatus)]
    /\ views' = Without(v)
    /\ UNCHANGED <<cur_idx, kidx, filled, pkts, handed, blockingvars, asyncvars, buildvars, pktvars, satvars, ifvars, streamvars>>

\* a RawPacket goes out of scope
DropPacket(p) ==
    /\ p \in pkts
    /\ pkts' = pkts \ {p}
    /\ UNCHANGED <<blocks, cur_idx, kidx, filled, views, handed, blockingvars, asyncvars, buildvars, pktvars, satvars, ifvars, streamvars>>

\* ----------------------------------------------------- rx/mod.rs, builder

\* prepare_socket, its statements in the order they are written
PrepareOrderBindFirst ==
    <<"set_non_blocking", "set_flag", "frame_nr", "PACKET_VERSION", "PACKET_RX_RING",
      "bind", "mmap", "PACKET_FANOUT", "set_bpf_filter">>
PrepareOrder ==
    <<"set_non_blocking", "set_flag", "frame_nr", "PACKET_VERSION", "PACKET_RX_RING",
      "mmap", "bind", "PACKET_FANOUT", "set_bpf_filter">>

\* prepare_socket: `if non_blocking`, `if self.promiscuous`,
\* `if let Some(program) = self.bpf.take()`; the other statements always run
Applies(c, name) ==
    CASE name = "set_non_blocking" -> c.non_blocking
      [] name = "set_flag" -> c.promiscuous
      [] name = "set_bpf_filter" -> c.bpf
      [] OTHER -> TRUE

\* what a builder of configuration c has done once prepare_socket returned Ok
Performed(c) == <<"socket">> \o SelectSeq(PrepareOrder, LAMBDA name : Applies(c, name))

\* no error so far
NoError == [failed |-> "none", returned |-> "none"]

\* `?` and `return Err(Error::last_os_error())`: the error of the step that
\* failed goes to the caller
ErrorOf(name) == [failed |-> name, returned |-> name]

\* the interface names tried: one the system has, one it has not, one with a
\* NUL byte in it
IfNames == {"eth0", "nope0", "nul"}

\* the index of the interface the system has
Eth0Index == 2

\* if_nametoindex: the index of the interface, 0 when there is none
IfNameToIndex(name) == IF name = "eth0" THEN Eth0Index ELSE 0

\* get_if_index: CString::new(name)? fails on a NUL byte; whatever
\* if_nametoindex returned is Ok(index)
GetIfIndexOk(name) == name # "nul"

\* TpacketReq3::default(), sizes in units of 1024 bytes
DefaultOpts ==
    [tp_block_size |-> 32, tp_block_nr |-> 10000, tp_frame_size |-> 2, tp_frame_nr |-> 160000]

\* the u32 range in units of 1024 bytes (2^32 / 2^10): sizes are whole
\* multiples of 1024 bytes, so a product of a size and a count wraps at this
U32Units == 4194304

\* the tp_frame_nr values a caller puts in RingSettings.ring_settings
UserFrameNrs == {160000, 7}
\* RingBuilder::block_size arguments (KiB): 32 KiB, 1.5 MiB
BlockSizes == {32, 1536}
\* RingBuilder::block_count arguments
BlockCounts == {10000, 4096}
\* RingBuilder::frame_size arguments (KiB)
FrameSizes == {0, 2}

\* the pids of the processes looked at: below and above 2^16
Pids == {4242, 70000}

\* `self.opts.tp_block_size * self.opts.tp_block_nr` of c_uint operands: does
\* it overflow, and what the wrapping build makes of it
MulOverflows(o) == o.tp_block_size * o.tp_block_nr >= U32Units
MulWrapped(o) == (o.tp_block_size * o.tp_block_nr) % U32Units

\* `(tp_block_size * tp_block_nr) / tp_frame_size`
FrameNr(o) == MulWrapped(o) \div o.tp_frame_size

\* the derivation panics: division by zero, or overflow in a build with
\* overflow checks
FrameNrPanics(o, checks) == o.tp_frame_size = 0 \/ (checks /\ MulOverflows(o))

PACKET_FANOUT_HASH == 0
PACKET_FANOUT_LB == 1
PACKET_FANOUT_CPU == 2
FanoutMethods == {PACKET_FANOUT_HASH, PACKET_FANOUT_LB, PACKET_FANOUT_CPU}

\* `(getpid() & 0xFFFF) | (PACKET_FANOUT_HASH << 16)`
FanoutWord(f) == (f.pid % 65536) + PACKET_FANOUT_HASH * 65536

\* nothing passed to the kernel yet
NoKern == [rx_ring_frame_nr |-> -1, fanout |-> -1, bound_index |-> -1]

\* RingBuilder::new and RingBuilder::from_settings: Socket::from_if_name opens
\* the socket and looks the interface up; promiscuous starts true;
\* from_settings may bring a filter and brings ring_settings with a
\* tp_frame_nr of the caller's
SocketFromIfName(ok, name, filter, frame_nr) ==
    /\ bpc = "new"
    /\ calls' = Append(calls, "socket")
    /\ IF ~ok
       THEN /\ bpc' = "failed"
            /\ err' = ErrorOf("socket")
            /\ UNCHANGED <<cfg, sock, opts>>
       ELSE IF ~GetIfIndexOk(name)
       THEN /\ bpc' = "failed"
            /\ err' = ErrorOf("socket")
            /\ sock' = [sock EXCEPT !.fd = "open"]
            /\ UNCHANGED <<cfg, opts>>
       ELSE /\ bpc' = "builder"
            /\ cfg' = [non_blocking |-> FALSE, promiscuous |-> TRUE, bpf |-> filter]
            /\ sock' = [sock EXCEPT !.fd = "open", !.if_index = IfNameToIndex(name)]
            /\ opts' = [DefaultOpts EXCEPT !.tp_frame_nr = frame_nr]
            /\ UNCHANGED err
    /\ UNCHANGED <<ringvars, blockingvars, asyncvars, pktvars, satvars, ifvars, streamvars, bstep, built, fan, kern>>

\* RingBuilder::promiscuous
Promiscuous(flag) ==
    /\ bpc = "builder"
    /\ cfg' = [cfg EXCEPT !.promiscuous = flag]
    /\ UNCHANGED <<ringvars, blockingvars, asyncvars, pktvars, satvars, ifvars, streamvars, bpc, bstep, calls, built, setupvars>>

\* RingBuilder::filter
Filter ==
    /\ bpc = "builder"
    /\ cfg' = [cfg EXCEPT !.bpf = TRUE]
    /\ UNCHANGED <<ringvars, blockingvars, asyncvars, pktvars, satvars, ifvars, streamvars, bpc, bstep, calls, built, setupvars>>

\* RingBuilder::fanout_method, and RingSettings.fanout_method
FanoutMethod(method) ==
    /\ bpc = "builder"
    /\ fan' = [fan EXCEPT !.method = method]
    /\ UNCHANGED <<ringvars, blockingvars, asyncvars, pktvars, satvars, ifvars, streamvars, cfg, bpc, bstep, calls, built,
                   sock, opts, kern, err>>

\* RingBuilder::block_size
BlockSize(size) ==
    /\ bpc = "builder"
    /\ opts' = [opts EXCEPT !.tp_block_size = size]
    /\ UNCHANGED <<ringvars, blockingvars, asyncvars, pktvars, satvars, ifvars, streamvars, cfg, bpc, bstep, calls, built,
                   sock, fan, kern, err>>

\* RingBuilder::block_count
BlockCount(count) ==
    /\ bpc = "builder"
    /\ opts' = [opts EXCEPT !.tp_block_nr = count]
    /\ UNCHANGED <<ringvars, blockingvars, asyncvars, pktvars, satvars, ifvars, streamvars, cfg, bpc, bstep, calls, built,
                   sock, fan, kern, err>>

\* RingBuilder::frame_size
FrameSize(size) ==
    /\ bpc = "builder"
    /\ opts' = [opts EXCEPT !.tp_frame_size = size]
    /\ UNCHANGED <<ringvars, blockingvars, asyncvars, pktvars, satvars, ifvars, streamvars, cfg, bpc, bstep, calls, built,
                   sock, fan, kern, err>>

\* RingBuilder::build enters prepare_socket(false)
Build ==
    /\ bpc = "builder"
    /\ cfg' = [cfg EXCEPT !.non_blocking = FALSE]
    /\ bpc' = "prepare"
    /\ bstep' = 1
    /\ UNCHANGED <<ringvars, blockingvars, asyncvars, pktvars, satvars, ifvars, streamvars, calls, built, setupvars>>

\* RingBuilder::build_async enters prepare_socket(true)
BuildAsync ==
    /\ bpc = "builder"
    /\ cfg' = [cfg EXCEPT !.non_blocking = TRUE]
    /\ bpc' = "prepare"
    /\ bstep' = 1
    /\ UNCHANGED <<ringvars, blockingvars, asyncvars, pktvars, satvars, ifvars, streamvars, calls, built, setupvars>>

\* where `?` leaves the builder when a step has failed
RetryFailedStep == "prepare"
AfterFailedStep == "failed"

\* one statement of prepare_socket: skipped when its condition is false, else
\* performed, and its `?` leaves prepare_socket when it failed
PrepareStep(name, ok) ==
    /\ bpc = "prepare"
    /\ bstep <= Len(PrepareOrder)
    /\ PrepareOrder[bstep] = name
    /\ IF Applies(cfg, name)
       THEN /\ calls' = Append(calls, name)
            /\ IF ok
               THEN /\ bstep' = bstep + 1
                    /\ bpc' = IF bstep = Len(PrepareOrder) THEN "init" ELSE "prepare"
                    /\ UNCHANGED err
               ELSE /\ bpc' = AfterFailedStep
                    /\ err' = ErrorOf(name)
                    /\ UNCHANGED bstep
       ELSE /\ bstep' = bstep + 1
            /\ bpc' = IF bstep = Len(PrepareOrder) THEN "init" ELSE "prepare"
            /\ UNCHANGED <<calls, err>>
    /\ UNCHANGED <<ringvars, blockingvars, asyncvars, pktvars, satvars, streamvars, cfg, built>>

\* ------------------------------------------------ socket.rs, set_flag

\* the interface flags (ifr_flags, a c_short taken as its 16 bits) tried:
\* UP|BROADCAST|RUNNING|MULTICAST, the same with PROMISC, one with bit 15 and
\* the low byte set, none
IfFlags == {4163, 4419, 32783, 0}

\* bitwise or of two bit patterns
RECURSIVE BitOr(_, _)
BitOr(a, b) ==
    IF a = 0 THEN b
    ELSE IF b = 0 THEN a
    ELSE (IF a % 2 = 1 \/ b % 2 = 1 THEN 1 ELSE 0) + 2 * BitOr(a \div 2, b \div 2)

\* the two bytes in which the host keeps a c_short: what mem::transmute of
\* it yields, and what the kernel leaves in the ifr_flags bytes of a request
NativeBytes(big_endian, v) ==
    IF big_endian THEN <<v \div 256, v % 256>> ELSE <<v % 256, v \div 256>>

\* the c_short the kernel reads from the ifr_flags bytes of a request
NativeShort(big_endian, data) ==
    IF big_endian THEN data[1] * 256 + data[2] ELSE data[2] * 256 + data[1]

\* c_short::from_be: the bytes are swapped on a little-endian host
FromBe(big_endian, v) == IF big_endian THEN v ELSE (v % 256) * 256 + (v \div 256)

\* as_short without the from_be
AsShortNoFromBe(big_endian, data) == BitOr((data[1] * 256) % 65536, data[2])

\* IfReq::as_short: data[1], data[2] here are data[0], data[1] there
AsShort(big_endian, data) == FromBe(big_endian, BitOr((data[1] * 256) % 65536, data[2]))

\* IfReq::from_short: the first two bytes of the request's data
FromShort(big_endian, i) == NativeBytes(big_endian, i)

\* Socket::get_flags: the data of the request after SIOCGIFFLAGS
GetFlags(big_endian, flags) == NativeBytes(big_endian, flags)

\* Socket::set_flag: the interface flags once SIOCSIFFLAGS has stored the
\* request built from `flags | flag as c_short`
FlagsAfterSetFlag(big_endian, flags, flag) ==
    LET old_flags == AsShort(big_endian, GetFlags(big_endian, flags))
        new_flags == BitOr(old_flags, flag % 65536)
    IN  NativeShort(big_endian, FromShort(big_endian, new_flags))

\* the interface as the builder finds it
Interfaces ==
    {[flags |-> f, before |-> f, writes |-> 0, big_endian |-> e] : f \in IfFlags, e \in BOOLEAN}

\* `if non_blocking { self.socket.set_non_blocking()?; }`
SetNonBlocking(ok) ==
    /\ bpc = "prepare"
    /\ PrepareStep("set_non_blocking", ok)
    /\ UNCHANGED <<sock, opts, fan, kern, ifc>>

\* `if self.promiscuous { self.socket.set_flag(IFF_PROMISC as u64)?; }`:
\* Socket::set_flag reads the flags with SIOCGIFFLAGS and writes them back
\* with SIOCSIFFLAGS; a failure of either ioctl leaves the interface alone
SetFlag(ok) ==
    /\ bpc = "prepare"
    /\ PrepareStep("set_flag", ok)
    /\ ifc' = IF Applies(cfg, "set_flag") /\ ok
              THEN [ifc EXCEPT !.flags = FlagsAfterSetFlag(ifc.big_endian, ifc.flags,
                                                           IFF_PROMISC),
                               !.writes = ifc.writes + 1]
              ELSE ifc
    /\ UNCHANGED <<sock, opts, fan, kern>>

\* `self.opts.tp_frame_nr = (tp_block_size * tp_block_nr) / tp_frame_size`:
\* a build with overflow checks panics on overflow, one without wraps
DeriveFrameNr(checks) ==
    /\ bpc = "prepare"
    /\ IF FrameNrPanics(opts, checks)
       THEN /\ bstep <= Len(PrepareOrder)
            /\ PrepareOrder[bstep] = "frame_nr"
            /\ bpc' = "panicked"
            /\ UNCHANGED <<ringvars, blockingvars, asyncvars, pktvars, satvars, streamvars, cfg, bstep, calls, built,
                           opts, err>>
       ELSE /\ PrepareStep("frame_nr", TRUE)
            /\ opts' = [opts EXCEPT !.tp_frame_nr = FrameNr(opts)]
    /\ UNCHANGED <<sock, fan, kern, ifc>>

\* `self.socket.setsockopt(PACKET_VERSION, tpacket3::TPACKET_V3)?`
SetVersion(ok) ==
    /\ bpc = "prepare"
    /\ PrepareStep("PACKET_VERSION", ok)
    /\ UNCHANGED <<sock, opts, fan, kern, ifc>>

\* `self.socket.setsockopt(PACKET_RX_RING, self.opts.clone())?`
SetRxRing(ok) ==
    /\ bpc = "prepare"
    /\ PrepareStep("PACKET_RX_RING", ok)
    /\ kern' = [kern EXCEPT !.rx_ring_frame_nr = opts.tp_frame_nr]
    /\ UNCHANGED <<sock, opts, fan, ifc>>

\* `let mmap = self.mmap()?` and the RawBlocks laid over the mapping
Mmap(ok) ==
    /\ bpc = "prepare"
    /\ PrepareStep("mmap", ok)
    /\ UNCHANGED <<sock, opts, fan, kern, ifc>>

\* `self.bind()?`, with sll_ifindex = self.socket.if_index
Bind(ok) ==
    /\ bpc = "prepare"
    /\ PrepareStep("bind", ok)
    /\ kern' = IF ok THEN [kern EXCEPT !.bound_index = sock.if_index] ELSE kern
    /\ UNCHANGED <<sock, opts, fan, ifc>>

\* `self.socket.setsockopt(PACKET_FANOUT, fanout)?`
SetFanout(ok) ==
    /\ bpc = "prepare"
    /\ PrepareStep("PACKET_FANOUT", ok)
    /\ kern' = IF ok THEN [kern EXCEPT !.fanout = FanoutWord(fan)] ELSE kern
    /\ UNCHANGED <<sock, opts, fan, ifc>>

\* `if let Some(program) = self.bpf.take() { self.socket.set_bpf_filter(program)?; }`
SetBpfFilter(ok) ==
    /\ bpc = "prepare"
    /\ PrepareStep("set_bpf_filter", ok)
    /\ UNCHANGED <<sock, opts, fan, kern, ifc>>

\* build: `Ok(Ring::init(self.socket, blocks, self.opts)?)`, which never fails
InitRing ==
    /\ bpc = "init"
    /\ ~cfg.non_blocking
    /\ bpc' = "done"
    /\ built' = "ring"
    /\ UNCHANGED <<ringvars, blockingvars, asyncvars, pktvars, satvars, ifvars, streamvars, cfg, bstep, calls, setupvars>>

\* build_async: `Ok(AsyncRing::init(self.socket, blocks, self.opts)?)`, which
\* fails when AsyncFd::new does
InitAsyncRing(ok) ==
    /\ bpc = "init"
    /\ cfg.non_blocking
    /\ bpc' = IF ok THEN "done" ELSE "failed"
    /\ built' = IF ok THEN "async_ring" ELSE built
    /\ err' = IF ok THEN err ELSE ErrorOf("AsyncFd::new")
    /\ UNCHANGED <<ringvars, blockingvars, asyncvars, pktvars, satvars, ifvars, streamvars, cfg, bstep, calls, sock, opts, fan, kern>>

\* what the descriptor is after the Ring, the AsyncRing or a Socket was
\* dropped: none of them has a Drop impl, and the RawFd in AsyncFd is an integer
FdClosedOnDrop(fd) == "closed"
FdAfterDrop(fd) == fd

\* Ring::socket, AsyncRing::socket: `self.socket.clone()`
RingSocket ==
    /\ bpc = "done"
    /\ ~sock.dropped
    /\ sock.clones < MaxClones
    /\ sock' = [sock EXCEPT !.clones = @ + 1]
    /\ UNCHANGED <<ringvars, blockingvars, asyncvars, pktvars, satvars, ifvars, streamvars, cfg, bpc, bstep, calls, built,
                   opts, fan, kern, err>>

\* a Socket taken from the Ring goes out of scope
DropSocket ==
    /\ sock.clones > 0
    /\ sock' = [sock EXCEPT !.clones = @ - 1, !.fd = FdAfterDrop(@)]
    /\ UNCHANGED <<ringvars, blockingvars, asyncvars, pktvars, satvars, ifvars, streamvars, cfg, bpc, bstep, calls, built,
                   opts, fan, kern, err>>

\* the Ring or the AsyncRing goes out of scope
DropRing ==
    /\ bpc = "done"
    /\ ~sock.dropped
    /\ sock' = [sock EXCEPT !.dropped = TRUE, !.fd = FdAfterDrop(@)]
    /\ UNCHANGED <<ringvars, blockingvars, asyncvars, pktvars, satvars, ifvars, streamvars, cfg, bpc, bstep, calls, built,
                   opts, fan, kern, err>>

\* ----------------------------------------------- rx/mod.rs, RawPacketIter

\* size_of::<TpacketBlockDesc>(), where the kernel puts the first record
BlockDescLen == 48
\* `i32::MAX as usize`
I32_MAX == 2147483647

\* the lengths of the records the kernel wrote, and their tp_mac
RecordSizes == {96, 160}
MacOffsets == {66, 82}
\* tp_next_offset of the last record of a block: the kernel writes 0
LastNextOffsets == {0, 96}

\* where record i of a block with records of lengths sz starts
RECURSIVE RecordOffset(_, _)
RecordOffset(sz, i) == IF i = 1 THEN BlockDescLen ELSE RecordOffset(sz, i - 1) + sz[i - 1]

\* a block the kernel closed with n records of lengths sz and tp_mac mc, the
\* last with tp_next_offset ln: every other tp_next_offset is the record's
\* length, blk_len is where the last record ends
KernelBlock(n, sz, mc, ln) ==
    [num_pkts |-> n,
     offset_to_first_pkt |-> BlockDescLen,
     blk_len |-> IF n = 0 THEN BlockDescLen ELSE RecordOffset(sz, n) + sz[n],
     hdrs |-> [o \in {RecordOffset(sz, i) : i \in 1 .. n} |->
                  LET i == CHOOSE j \in 1 .. n : RecordOffset(sz, j) = o
                  IN  [tp_next_offset |-> IF i < n THEN sz[i] ELSE ln, tp_mac |-> mc[i]]]]

\* impl From<&mut RawBlock> for Block: raw_data is blk_len bytes long
RawDataLen(b) == b.blk_len

\* the Tpacket3Hdr read at an offset of raw_data
HeaderAt(b, off) ==
    IF off \in DOMAIN b.hdrs THEN b.hdrs[off] ELSE [tp_next_offset |-> 0, tp_mac |-> 0]

\* Block::raw_packets_iter, Block::into_raw_packets_iter (cur_next_offset
\* None is -1); nothing returned yet
RawPacketsIter(b) ==
    [next_offset |-> b.offset_to_first_pkt, cur_next_offset |-> -1, cur_idx |-> 0,
     count |-> b.num_pkts, ret |-> "none", panicked |-> FALSE]

\* RawPacketIter::is_last, RawPacketsConsumingIter::is_last
IsLastBeforeEnd(i) == i.cur_idx + 1 >= i.count
IsLast(i) == i.cur_idx = i.count

\* RawPacketIter::current: `if self.cur_idx >= self.count { return None; }`
CurrentIsNoneEarly(i) == i.cur_idx + 1 >= i.count
CurrentIsNone(i) == i.cur_idx >= i.count

\* RawPacketIter::next_offset of current()
NextOffsetAlwaysChained(b, i) == i.next_offset + HeaderAt(b, i.next_offset).tp_next_offset
NextOffsetAfter(b, i) ==
    IF i.cur_idx < i.count - 1
    THEN i.next_offset + HeaderAt(b, i.next_offset).tp_next_offset
    ELSE RawDataLen(b)

\* `offset + header.tp_mac as usize`
PayloadOffset(b, i) == i.next_offset + HeaderAt(b, i.next_offset).tp_mac

\* `&buf[payload_offset..]`: the slice runs to the end of raw_data
PayloadEnd(b, i) == RawDataLen(b)

\* RawPacketIter::current: the asserts, and the slices that must be in range
CurrentPanics(b, i) ==
    \/ i.next_offset = 0
    \/ i.next_offset = RawDataLen(b)
    \/ i.next_offset > I32_MAX
    \/ i.next_offset > RawDataLen(b)
    \/ PayloadOffset(b, i) > I32_MAX
    \/ PayloadOffset(b, i) > RawDataLen(b)

\* the RawPacket current() returns: where its header is, and its payload slice
CurrentPacket(b, i) ==
    [header |-> i.next_offset, payload_from |-> PayloadOffset(b, i),
     payload_to |-> PayloadEnd(b, i)]

\* RawPacketIter::current, what it leaves in the iterator
Current(b, i) == [i EXCEPT !.cur_next_offset = NextOffsetAfter(b, i)]

\* RawPacketIter::flush_current
FlushCurrent(i) ==
    IF i.cur_next_offset # -1
    THEN [i EXCEPT !.next_offset = i.cur_next_offset, !.cur_idx = @ + 1,
                   !.cur_next_offset = -1]
    ELSE i

\* RawPacketIter::next, which RawPacketsConsumingIter::next passes on
RawPacketIterNext ==
    /\ ~it.panicked
    /\ IF CurrentIsNone(it)
       THEN /\ it' = [it EXCEPT !.ret = "None"]
            /\ out' = out
       ELSE IF CurrentPanics(blk, it)
       THEN /\ it' = [it EXCEPT !.panicked = TRUE]
            /\ out' = out
       ELSE /\ it' = [FlushCurrent(Current(blk, it)) EXCEPT !.ret = "Some"]
            /\ out' = Append(out, CurrentPacket(blk, it))
    /\ UNCHANGED <<ringvars, blockingvars, asyncvars, buildvars, blk, satvars, ifvars, streamvars>>

\* no Stream reads
StreamIdle ==
    /\ spc = "idle"
    /\ sres = "none"
    /\ sbuf = <<>>

\* no block is being walked
PktIdle ==
    /\ blk = KernelBlock(0, <<>>, <<>>, 0)
    /\ it = RawPacketsIter(blk)
    /\ out = <<>>

\* ------------------------------- rx/mod.rs, buffer_saturation_threshold

\* tp_block_nr of the rings looked at
SatBlocks == 10

\* blocks of the two rings whose saturations are compared
MonoBlocks == 5

\* the step_percent arguments (the function asserts step_percent < 50)
StepPercents == {0, 10, 25, 49}

\* `(tp_block_nr as u64 * step_percent as u64 / 100) as u32`, 1 when that is 0
\* the loop with the readiness test of its if turned round
RECURSIVE SatLoopInverted(_, _, _, _, _)
SatLoopInverted(nr, ready, step, n, idx) ==
    IF n < nr
    THEN LET n1 == IF n + step > nr THEN nr ELSE n + step
         IN  IF idx \notin ready
             THEN SatLoopInverted(nr, ready, step, n1, (idx + step) % nr)
             ELSE n1
    ELSE n

SatStep(nr, pct) == IF (nr * pct) \div 100 = 0 THEN 1 ELSE (nr * pct) \div 100

\* the while loop of buffer_saturation_threshold, from n and idx on: the n it
\* ends with
RECURSIVE SatLoop(_, _, _, _, _)
SatLoop(nr, ready, step, n, idx) ==
    IF n < nr
    THEN LET n1 == IF n + step > nr THEN nr ELSE n + step
         IN  IF idx \in ready
             THEN SatLoop(nr, ready, step, n1, (idx + step) % nr)
             ELSE n1
    ELSE n

\* Ring::buffer_saturation_threshold; ready is the set of slots whose
\* is_ready() is true
BufferSaturationThreshold(nr, ready, cur, pct) ==
    (SatLoop(nr, ready, SatStep(nr, pct), 0, (cur + SatStep(nr, pct)) % nr) * 100) \div nr

\* a caller asks for the saturation of the ring
SatCall ==
    /\ sat.ret = -1
    /\ sat' = [sat EXCEPT !.ret = BufferSaturationThreshold(sat.nr, sat.ready, sat.cur,
                                                            sat.step_percent)]
    /\ UNCHANGED <<ringvars, blockingvars, asyncvars, buildvars, pktvars, ifvars, streamvars, satb>>

\* the same call in the second ring state
SatCallB ==
    /\ satb.ret = -1
    /\ satb' = [satb EXCEPT !.ret = BufferSaturationThreshold(satb.nr, satb.ready, satb.cur,
                                                              satb.step_percent)]
    /\ UNCHANGED <<ringvars, blockingvars, asyncvars, buildvars, pktvars, ifvars, streamvars, sat>>

\* nobody asks for the saturation
NoSatCall == [nr |-> NBlocks, ready |-> {}, cur |-> 0, step_percent |-> 0, ret |-> -2]

SatIdle ==
    /\ sat = [NoSatCall EXCEPT !.ret = -1]
    /\ satb = NoSatCall

\* the ring as RingBuilder::build leaves it, nothing received yet
RingStart(watched) ==
    /\ blocks = [s \in Slots |-> [block_status |-> TP_STATUS_KERNEL, num_pkts |-> 0]]
    /\ cur_idx = 0
    /\ kidx = 0
    /\ views = EmptyBag
    /\ pkts = {}
    /\ handed = <<>>
    /\ filled = [on |-> watched, slots |-> <<>>]
    /\ rpc = "idle"
    /\ apc = "idle"
    /\ rdy = FALSE
    /\ sig = FALSE
    /\ ares = "none"

RingInit == RingStart(FALSE)

\* what a builder with the default settings, NBlocks blocks and the interface
\* the system has leaves behind
SetupDone ==
    /\ sock = [fd |-> "open", if_index |-> Eth0Index, clones |-> 0, dropped |-> FALSE]
    /\ opts = [DefaultOpts EXCEPT !.tp_block_nr = NBlocks,
                                  !.tp_frame_nr = (DefaultOpts.tp_block_size * NBlocks)
                                                   \div DefaultOpts.tp_frame_size]
    /\ fan \in [method : {PACKET_FANOUT_HASH}, pid : {CHOOSE p \in Pids : TRUE}]
    /\ kern = [rx_ring_frame_nr |-> opts.tp_frame_nr, fanout |-> FanoutWord(fan),
               bound_index |-> Eth0Index]
    /\ err = NoError
    /\ ifc = [flags |-> 4419, before |-> 4163, writes |-> 1, big_endian |-> FALSE]

\* Ring::init: cur_idx 0; a fresh ring is all KERNEL; the builder has run
Init ==
    /\ RingInit
    /\ cfg = [non_blocking |-> FALSE, promiscuous |-> TRUE, bpf |-> FALSE]
    /\ bpc = "done"
    /\ bstep = Len(PrepareOrder) + 1
    /\ calls = Performed(cfg)
    /\ built = "ring"
    /\ SetupDone
    /\ StreamIdle
    /\ PktIdle
    /\ SatIdle

\* a program about to make a RingBuilder
BuildInit ==
    /\ RingInit
    /\ cfg = [non_blocking |-> FALSE, promiscuous |-> TRUE, bpf |-> FALSE]
    /\ bpc = "new"
    /\ bstep = 0
    /\ calls = <<>>
    /\ built = "none"
    /\ sock = [fd |-> "none", if_index |-> 0, clones |-> 0, dropped |-> FALSE]
    /\ opts = DefaultOpts
    /\ fan \in [method : {PACKET_FANOUT_HASH}, pid : Pids]
    /\ kern = NoKern
    /\ err = NoError
    /\ ifc \in Interfaces
    /\ StreamIdle
    /\ PktIdle
    /\ SatIdle

\* RingBuilder from new/from_settings to build/build_async
BuildNext ==
    \/ \E ok \in BOOLEAN, name \in IfNames, filter \in BOOLEAN, frame_nr \in UserFrameNrs :
          SocketFromIfName(ok, name, filter, frame_nr)
    \/ \E flag \in BOOLEAN : Promiscuous(flag)
    \/ Filter
    \/ \E method \in FanoutMethods : FanoutMethod(method)
    \/ \E size \in BlockSizes : BlockSize(size)
    \/ \E count \in BlockCounts : BlockCount(count)
    \/ \E size \in FrameSizes : FrameSize(size)
    \/ Build
    \/ BuildAsync
    \/ \E ok \in BOOLEAN : SetNonBlocking(ok)
    \/ \E ok \in BOOLEAN : SetFlag(ok)
    \/ \E checks \in BOOLEAN : DeriveFrameNr(checks)
    \/ \E ok \in BOOLEAN : SetVersion(ok)
    \/ \E ok \in BOOLEAN : SetRxRing(ok)
    \/ \E ok \in BOOLEAN : Mmap(ok)
    \/ \E ok \in BOOLEAN : Bind(ok)
    \/ \E ok \in BOOLEAN : SetFanout(ok)
    \/ \E ok \in BOOLEAN : SetBpfFilter(ok)
    \/ InitRing
    \/ \E ok \in BOOLEAN : InitAsyncRing(ok)
    \/ RingSocket
    \/ DropSocket
    \/ DropRing

SpecBuild == BuildInit /\ [][BuildNext]_vars

\* a block of 0 .. MaxRecs records, and an iterator just made of it
IterInit ==
    /\ RingInit
    /\ cfg = [non_blocking |-> FALSE, promiscuous |-> TRUE, bpf |-> FALSE]
    /\ bpc = "done"
    /\ bstep = Len(PrepareOrder) + 1
    /\ calls = Performed(cfg)
    /\ built = "ring"
    /\ SetupDone
    /\ StreamIdle
    /\ SatIdle
    /\ \E n \in 0 .. MaxRecs :
          \E sz \in [1 .. n -> RecordSizes], mc \in [1 .. n -> MacOffsets], ln \in LastNextOffsets :
             blk = KernelBlock(n, sz, mc, ln)
    /\ it = RawPacketsIter(blk)
    /\ out = <<>>

IterSpecNext == RawPacketIterNext

\* a caller walking one block with a packet iterator
SpecIter == IterInit /\ [][IterSpecNext]_vars

\* a ring of SatBlocks blocks, any of them ripe, the cursor anywhere
SatInit ==
    /\ RingInit
    /\ cfg = [non_blocking |-> FALSE, promiscuous |-> TRUE, bpf |-> FALSE]
    /\ bpc = "done"
    /\ bstep = Len(PrepareOrder) + 1
    /\ calls = Performed(cfg)
    /\ built = "ring"
    /\ SetupDone
    /\ StreamIdle
    /\ PktIdle
    /\ sat \in [nr : {SatBlocks}, ready : SUBSET (0 .. (SatBlocks - 1)),
                cur : 0 .. (SatBlocks - 1), step_percent : StepPercents, ret : {-1}]
    /\ satb = NoSatCall

SatNext == SatCall

\* calls of buffer_saturation_threshold on rings in every state
SpecSat == SatInit /\ [][SatNext]_vars

\* two ring states with the same cursor, block count and step_percent, every
\* ripe block of the first being ripe in the second
SatMonoInit ==
    /\ RingInit
    /\ cfg = [non_blocking |-> FALSE, promiscuous |-> TRUE, bpf |-> FALSE]
    /\ bpc = "done"
    /\ bstep = Len(PrepareOrder) + 1
    /\ calls = Performed(cfg)
    /\ built = "ring"
    /\ SetupDone
    /\ StreamIdle
    /\ PktIdle
    /\ sat \in [nr : {MonoBlocks}, ready : SUBSET (0 .. (MonoBlocks - 1)),
                cur : 0 .. (MonoBlocks - 1), step_percent : StepPercents, ret : {-1}]
    /\ satb \in [nr : {MonoBlocks}, ready : SUBSET (0 .. (MonoBlocks - 1)),
                 cur : 0 .. (MonoBlocks - 1), step_percent : StepPercents, ret : {-1}]
    /\ sat.ready \subseteq satb.ready
    /\ sat.cur = satb.cur
    /\ sat.step_percent = satb.step_percent

SatMonoNext ==
    \/ SatCall
    \/ SatCallB

\* buffer_saturation_threshold called in both ring states; a call that is
\* made runs to its return
SpecSatMono ==
    SatMonoInit /\ [][SatMonoNext]_vars /\ WF_vars(SatCall) /\ WF_vars(SatCallB)

\* the blocking Ring, its caller free to do whatever the interface allows and
\* keeping the RawPackets it reads
CallerNext ==
    \/ \E n \in 0 .. MaxPkts, st \in {TP_STATUS_USER, TP_STATUS_USER + TP_STATUS_LOSING} :
          KernelFill(n, st)
    \/ RecvCall
    \/ RecvCheck
    \/ \E res \in {-1, 1} : PollReturn(res)
    \/ \E v \in Held : Consume(v)
    \/ \E v \in Held : DropBlock(v)
    \/ \E v \in Held, i \in 0 .. (MaxPkts - 1) : GetRawPackets(v, i)
    \/ \E v \in Held : IntoRawPacketsIter(v)
    \/ \E v \in Held, keep \in BOOLEAN : IterNext(v, keep)
    \/ \E v \in Held : DropIter(v)
    \/ \E p \in pkts : DropPacket(p)

SpecCaller == Init /\ [][CallerNext]_vars

\* the same, the caller letting every RawPacket go as soon as it has read it
Next ==
    \/ \E n \in 0 .. MaxPkts, st \in {TP_STATUS_USER, TP_STATUS_USER + TP_STATUS_LOSING} :
          KernelFill(n, st)
    \/ RecvCall
    \/ RecvCheck
    \/ \E res \in {-1, 1} : PollReturn(res)
    \/ \E v \in Held : Consume(v)
    \/ \E v \in Held : DropBlock(v)
    \/ \E v \in Held : IntoRawPacketsIter(v)
    \/ \E v \in Held : IterNext(v, FALSE)
    \/ \E v \in Held : DropIter(v)

Spec == Init /\ [][Next]_vars

\* ------------------------------------------- examples/simple/src/main.rs

\* worker: `for pack in block.into_raw_packets_iter()` takes the next packet
WorkerNext(v) ==
    /\ v.kind = "iter"
    /\ v.idx < v.count
    /\ IterNext(v, FALSE)

\* worker: next() returned None, the for loop ends and drops the iterator
WorkerDone(v) ==
    /\ v.kind = "iter"
    /\ v.idx >= v.count
    /\ DropIter(v)

\* worker (blocking): `let block = ring.recv_block()`, the block of the
\* turn before consumed
WorkerRecvCall ==
    /\ views = EmptyBag
    /\ RecvCall

\* the kernel and one worker thread on a blocking Ring
BlockingNext ==
    \/ \E n \in 0 .. MaxPkts, st \in {TP_STATUS_USER, TP_STATUS_USER + TP_STATUS_LOSING} :
          KernelFill(n, st)
    \/ WorkerRecvCall
    \/ RecvCheck
    \/ \E res \in {-1, 1} : PollReturn(res)
    \/ \E v \in Held : IntoRawPacketsIter(v)
    \/ \E v \in Held : WorkerNext(v)
    \/ \E v \in Held : WorkerDone(v)

\* the worker thread runs, and a poll() on a readable descriptor returns
SpecBlocking ==
    /\ Init
    /\ [][BlockingNext]_vars
    /\ WF_vars(RecvCheck)
    /\ WF_vars(PollReturn(1))

\* the same ring with the kernel's fills logged
ProducerInit ==
    /\ RingStart(TRUE)
    /\ cfg = [non_blocking |-> FALSE, promiscuous |-> TRUE, bpf |-> FALSE]
    /\ bpc = "done"
    /\ bstep = Len(PrepareOrder) + 1
    /\ calls = Performed(cfg)
    /\ built = "ring"
    /\ SetupDone
    /\ StreamIdle
    /\ PktIdle
    /\ SatIdle

\* the kernel as producer and the worker thread as the one consumer, in every
\* interleaving
SpecProducer == ProducerInit /\ [][BlockingNext]_vars

\* ----------------------------------------------------- rx/async/tokio.rs

\* AsyncRing::recv_block is called; the Block<'_> of the call before borrowed
\* the ring, so it, its iterator and its packets are gone
AsyncRecvCall ==
    /\ apc = "idle"
    /\ rpc = "idle"
    /\ views = EmptyBag
    /\ pkts = {}
    /\ Len(handed) < MaxRecv
    /\ apc' = "check"
    /\ ares' = "none"
    /\ UNCHANGED <<ringvars, blockingvars, rdy, sig, buildvars, pktvars, satvars, ifvars, streamvars>>

\* one turn of the loop of AsyncRing::recv_block: inner.check_current_block,
\* then either return Ok(block.into()) or await the waiter
AsyncRecvCheck ==
    /\ apc = "check"
    /\ LET ready == IsReady(blocks[cur_idx])
           got == CheckedSlot(ready, cur_idx)
       IN  /\ cur_idx' = CursorAfterCheck(ready, cur_idx)
           /\ IF got # {}
              THEN LET s == CHOOSE x \in got : TRUE
                   IN  /\ views' = With(BlockView(s))
                       /\ handed' = Append(handed, s)
                       /\ apc' = "idle"
                       /\ ares' = "block"
              ELSE /\ apc' = "await"
                   /\ UNCHANGED <<views, handed, ares>>
    /\ UNCHANGED <<blocks, kidx, filled, pkts, blockingvars, rdy, sig, buildvars, pktvars, satvars, ifvars, streamvars>>

\* the runtime's reactor sees the descriptor's event and sets AsyncFd's
\* readiness, which wakes the task
ReactorEvent ==
    /\ sig
    /\ sig' = FALSE
    /\ rdy' = TRUE
    /\ UNCHANGED <<ringvars, blockingvars, apc, ares, buildvars, pktvars, satvars, ifvars, streamvars>>

\* AsyncWaiter::poll: inner.poll_read_ready(cx) is Ready(Ok(guard)) once the
\* readiness is set, Pending before
WaiterReady ==
    /\ apc = "await"
    /\ rdy
    /\ apc' = "guard"
    /\ UNCHANGED <<ringvars, blockingvars, rdy, sig, ares, buildvars, pktvars, satvars, ifvars, streamvars>>

\* AsyncWaiter::poll: inner.poll_read_ready(cx) is Ready(Err(e)); the `?` of
\* poll and the `?` of recv_block return it
ErrorSwallowed == "check"
AfterWaiterError == "idle"

WaiterError ==
    /\ apc = "await"
    /\ apc' = AfterWaiterError
    /\ ares' = "err"
    /\ UNCHANGED <<ringvars, blockingvars, rdy, sig, buildvars, pktvars, satvars, ifvars, streamvars>>

\* recv_block after `(&mut self.waiter).await?` came back Ok: round the loop
AwaitAgain == "await"
AfterWaiter == "check"

\* AsyncWaiter::poll: guard.clear_ready(), then Poll::Ready(Ok(()))
WaiterClear ==
    /\ apc = "guard"
    /\ rdy' = FALSE
    /\ apc' = AfterWaiter
    /\ UNCHANGED <<ringvars, blockingvars, sig, ares, buildvars, pktvars, satvars, ifvars, streamvars>>

\* worker (async): `ring.recv_block().await`
AsyncNext ==
    \/ \E n \in 0 .. MaxPkts, st \in {TP_STATUS_USER, TP_STATUS_USER + TP_STATUS_LOSING} :
          KernelFill(n, st)
    \/ ReactorEvent
    \/ AsyncRecvCall
    \/ AsyncRecvCheck
    \/ WaiterReady
    \/ WaiterError
    \/ WaiterClear
    \/ \E v \in Held : IntoRawPacketsIter(v)
    \/ \E v \in Held : WorkerNext(v)
    \/ \E v \in Held : WorkerDone(v)

\* the ring BuildAsync leaves
AsyncInit ==
    /\ RingInit
    /\ cfg = [non_blocking |-> TRUE, promiscuous |-> TRUE, bpf |-> FALSE]
    /\ bpc = "done"
    /\ bstep = Len(PrepareOrder) + 1
    /\ calls = Performed(cfg)
    /\ built = "async_ring"
    /\ SetupDone
    /\ StreamIdle
    /\ PktIdle
    /\ SatIdle

\* the task is polled when woken, and the reactor delivers events
SpecAsync ==
    /\ AsyncInit
    /\ [][AsyncNext]_vars
    /\ WF_vars(AsyncRecvCheck)
    /\ WF_vars(ReactorEvent)
    /\ WF_vars(WaiterReady)
    /\ WF_vars(WaiterClear)

\* the cursor after the future of a pending recv_block was dropped: the future
\* holds the &mut AsyncRing and nothing else, and nothing runs when it goes
CursorSkippedOnDrop(i) == (i + 1) % NBlocks
CursorAfterFutureDrop(i) == i

\* the caller drops the future of recv_block while it awaits the waiter (a
\* select! or a timeout around the call)
DropFuture ==
    /\ apc = "await"
    /\ apc' = "idle"
    /\ ares' = "dropped"
    /\ cur_idx' = CursorAfterFutureDrop(cur_idx)
    /\ UNCHANGED <<blocks, kidx, filled, views, pkts, handed, blockingvars, rdy, sig, buildvars,
                   pktvars, satvars, ifvars, streamvars>>

AsyncCancelNext ==
    \/ AsyncNext
    \/ DropFuture

\* the async worker with calls of recv_block that are given up
SpecAsyncCancel == AsyncInit /\ [][AsyncCancelNext]_vars

\* ---------------------------------------------- rx/async/tokio.rs, Stream

\* the blocks the kernel closes for a Stream have up to this many packets
StreamPkts == 2

\* the layouts a closed block of n packets can have
KernelBlocks(n) ==
    {KernelBlock(n, sz, mc, ln) :
        sz \in [1 .. n -> RecordSizes], mc \in [1 .. n -> MacOffsets], ln \in LastNextOffsets}

\* the Stream's cur_block: the consuming iterator it holds, if any
CurBlock == Held

\* Stream::poll_read is called (a first poll, or one after a wake-up)
StreamPollRead ==
    /\ spc = "idle"
    /\ apc = "idle"
    /\ rpc = "idle"
    /\ CurBlock # {} \/ Len(handed) < MaxRecv
    /\ spc' = "check"
    /\ sres' = "none"
    /\ sbuf' = <<>>
    /\ UNCHANGED <<ringvars, blockingvars, asyncvars, buildvars, pktvars, satvars, ifvars>>

\* `if self.cur_block.is_none() { if let Some(block) = check_current_block()
\* { self.cur_block = Some(Block::from(block).into_raw_packets_iter()) } }`
StreamCheck ==
    /\ spc = "check"
    /\ IF CurBlock = {}
       THEN LET ready == IsReady(blocks[cur_idx])
                got == CheckedSlot(ready, cur_idx)
            IN  /\ cur_idx' = CursorAfterCheck(ready, cur_idx)
                /\ IF got # {}
                   THEN LET s == CHOOSE x \in got : TRUE
                        IN  /\ views' = With(IterView(s, blocks[s].num_pkts))
                            /\ handed' = Append(handed, s)
                            /\ blk' \in KernelBlocks(blocks[s].num_pkts)
                            /\ it' = RawPacketsIter(blk')
                            /\ out' = <<>>
                            /\ spc' = "next"
                   ELSE /\ spc' = "poll"
                        /\ UNCHANGED <<views, handed, pktvars>>
       ELSE /\ spc' = "next"
            /\ UNCHANGED <<cur_idx, views, handed, pktvars>>
    /\ UNCHANGED <<blocks, kidx, filled, pkts, blockingvars, asyncvars, buildvars, satvars, ifvars,
                   sres, sbuf>>

\* `match iter.next()`: None is panic!("empty block"); Some(pack) is put into
\* buf, the iterator is taken out of cur_block (and dropped, which consumes
\* the block) if it is_last(), and the read returns Poll::Ready(Ok(()))
StreamNext ==
    /\ spc = "next"
    /\ \E v \in CurBlock :
          IF CurrentIsNone(it) \/ CurrentPanics(blk, it)
          THEN /\ spc' = "panicked"
               /\ UNCHANGED <<blocks, views, pktvars, sres, sbuf>>
          ELSE /\ it' = [FlushCurrent(Current(blk, it)) EXCEPT !.ret = "Some"]
               /\ out' = Append(out, CurrentPacket(blk, it))
               /\ sbuf' = Append(sbuf, CurrentPacket(blk, it))
               /\ IF IsLast(it')
                  THEN /\ views' = Without(v)
                       /\ blocks' = [blocks EXCEPT ![v.slot] = Returned(@, ConsumedStatus)]
                  ELSE /\ views' = Replaced(v, [v EXCEPT !.idx = @ + 1])
                       /\ UNCHANGED blocks
               /\ spc' = "idle"
               /\ sres' = "ok"
               /\ UNCHANGED blk
    /\ UNCHANGED <<cur_idx, kidx, filled, pkts, handed, blockingvars, asyncvars, buildvars, satvars,
                   ifvars>>

\* `ready!(self.inner.waiter.poll(cx))?` with the readiness set: the waiter
\* clears it and the loop goes round
StreamWaiterReady ==
    /\ spc = "poll"
    /\ rdy
    /\ rdy' = FALSE
    /\ spc' = "check"
    /\ UNCHANGED <<ringvars, blockingvars, apc, sig, ares, buildvars, pktvars, satvars, ifvars,
                   sres, sbuf>>

\* the same with no readiness: the read returns Poll::Pending
StreamWaiterPending ==
    /\ spc = "poll"
    /\ ~rdy
    /\ spc' = "idle"
    /\ sres' = "pending"
    /\ UNCHANGED <<ringvars, blockingvars, asyncvars, buildvars, pktvars, satvars, ifvars,
                   sbuf>>

\* the same with an error of the readiness layer: the read returns it
StreamWaiterError ==
    /\ spc = "poll"
    /\ spc' = "idle"
    /\ sres' = "err"
    /\ UNCHANGED <<ringvars, blockingvars, asyncvars, buildvars, pktvars, satvars, ifvars,
                   sbuf>>

StreamStep ==
    \/ \E n \in 0 .. StreamPkts, st \in {TP_STATUS_USER, TP_STATUS_USER + TP_STATUS_LOSING} :
          KernelFill(n, st)
    \/ ReactorEvent
    \/ StreamPollRead
    \/ StreamCheck
    \/ StreamNext
    \/ StreamWaiterReady
    \/ StreamWaiterPending
    \/ StreamWaiterError

\* a task reading a Stream while the kernel fills the ring
SpecStream == AsyncInit /\ [][StreamStep]_vars

\* ------------------------------------------------------- the ring cursor

\* C1: after N hand-outs of recv_block the cursor is N mod block_count, and
\* the k-th block handed out is slot (k-1) mod block_count; so the cursor moves
\* at hand-out only: not when a block is consumed, and not when a check finds
\* the block at the cursor not ready.
CursorCountsHandOuts ==
    /\ cur_idx = Len(handed) % NBlocks
    /\ \A k \in 1 .. Len(handed) : handed[k] = (k - 1) % NBlocks

\* the ring has been gone round once and a block of the second round is out
CursorWrapped ==
    /\ Len(handed) = NBlocks + 1
    /\ cur_idx = 1 % NBlocks
    /\ handed[Len(handed)] = 0

\* C2: recv_block hands out the block at the cursor and no other, and only
\* in a step that finds bit 0 of that block's status word set; a block whose
\* status is TP_STATUS_KERNEL is never handed out.
HandsOutOnlyRipeCursorBlock ==
    [][handed' # handed =>
          /\ handed' = Append(handed, cur_idx)
          /\ views' = With(BlockView(cur_idx))
          /\ blocks[cur_idx].block_status % 2 = 1
          /\ blocks[cur_idx].block_status # TP_STATUS_KERNEL]_vars

\* a block carrying a further status bit beside USER has been handed out
\* while the other slot was still the kernel's
RipeBlockHandedOut ==
    /\ Len(handed) = 1
    /\ views = SetToBag({BlockView(0)})
    /\ blocks[0].block_status = TP_STATUS_USER + TP_STATUS_LOSING
    /\ blocks[1].block_status = TP_STATUS_KERNEL

\* ------------------------------------------------- blocks and their views

\* the step drops the consuming iterator v
IterDropped(v) == v.kind = "iter" /\ views' = Without(v)

\* C3: the status word of an iterator's block is unchanged by every step the
\* iterator survives, and is TP_STATUS_KERNEL after the step that drops it.
IterKeepsStatusUntilDrop ==
    [][\A v \in Held : v.kind = "iter" =>
          IF IterDropped(v)
          THEN blocks'[v.slot].block_status = TP_STATUS_KERNEL
          ELSE blocks'[v.slot].block_status = blocks[v.slot].block_status]_vars

\* C4: at most one Block (or iterator holding one) is alive per Ring, and no
\* two live views are of the same slot.
AtMostOneBlockView ==
    /\ BagCardinality(views) <= 1
    /\ \A v, w \in Held : v.slot = w.slot => v = w /\ CopiesIn(v, views) = 1

\* C5: every RawPacket the caller can still read lies in a block that is
\* USER-owned.
PacketsOnlyOfUserBlocks ==
    \A p \in pkts : blocks[p.slot].block_status % 2 = 1

\* the step is the kernel closing block s
KernelClosed(s) ==
    /\ s = kidx
    /\ kidx' = (kidx + 1) % NBlocks
    /\ blocks[s].block_status = TP_STATUS_KERNEL
    /\ views' = views

\* C6, as claimed: a block goes from USER to KERNEL only in the drop of a
\* consuming iterator of it, and from KERNEL to USER only by the kernel.
OnlyIterDropReturnsBlocks ==
    [][\A s \in Slots :
          /\ (blocks[s].block_status % 2 = 1 /\ blocks'[s].block_status = TP_STATUS_KERNEL)
                => \E v \in Held : v.slot = s /\ IterDropped(v)
          /\ (blocks[s].block_status = TP_STATUS_KERNEL /\ blocks'[s].block_status % 2 = 1)
                => KernelClosed(s)]_vars

\* C6, amended: the status word of a block changes only when the kernel
\* closes the block, or to TP_STATUS_KERNEL in Block::consume: called by the
\* drop of a consuming iterator of the block, or by a caller who holds a Block
\* of it and goes on holding it.
OnlyConsumeReturnsBlocks ==
    [][\A s \in Slots : blocks'[s].block_status # blocks[s].block_status =>
          \/ KernelClosed(s)
          \/ /\ blocks'[s].block_status = TP_STATUS_KERNEL
             /\ \E v \in Held : /\ v.slot = s
                                /\ \/ IterDropped(v)
                                   \/ v.kind = "block" /\ views' = views]_vars

\* a Block that was consumed by hand is still held
ConsumedByHand ==
    /\ Len(handed) = 1
    /\ views = SetToBag({BlockView(0)})
    /\ blocks[0].block_status = TP_STATUS_KERNEL

\* C7: the step that drops a Block (not turned into an iterator) writes no
\* status word, the slot's included, and leaves the cursor where it was: a
\* block that was USER-owned stays so.
BlockDropChangesNothing ==
    [][\A v \in Held : (v.kind = "block" /\ views' = Without(v)) =>
          /\ blocks' = blocks
          /\ cur_idx' = cur_idx
          /\ kidx' = kidx]_vars

\* the one Block handed out so far was dropped, neither consumed nor
\* iterated, and its slot is still USER-owned: the kernel never got it back
DroppedBlockStaysUser ==
    /\ handed = <<0>>
    /\ views = EmptyBag
    /\ rpc = "idle"
    /\ blocks[0].block_status % 2 = 1
    /\ kidx = 1
    /\ blocks[1].block_status = TP_STATUS_KERNEL

\* ------------------------------------------------------------ recv_block

\* the cursor block is ripe and a recv_block is pending
AsyncPendingRipe == apc # "idle" /\ blocks[cur_idx].block_status % 2 = 1

\* C8: async recv_block loses no wakeup: once the block at the cursor is
\* USER-owned (the kernel signals the descriptor as it sets the status, the
\* reactor sees the signal any time later) a pending recv_block completes,
\* and it returns the block that was at the cursor, slot 0 first, unless the
\* readiness layer has failed it.
AsyncNoLostWakeup ==
    /\ AsyncPendingRipe ~> (apc = "idle" /\ ares \in {"block", "err"})
    /\ [][(apc # "idle" /\ apc' = "idle" /\ ares' # "err") =>
             /\ apc = "check"
             /\ blocks[cur_idx].block_status % 2 = 1
             /\ ares' = "block"
             /\ handed' = Append(handed, cur_idx)
             /\ views' = With(BlockView(cur_idx))
             /\ handed'[1] = 0]_vars

\* the block became ripe and was signalled after the check had missed it and
\* before the waiter cleared the readiness of an earlier event
RipeBeforeClear ==
    /\ apc = "guard"
    /\ rdy
    /\ blocks[cur_idx].block_status % 2 = 1
    /\ handed = <<>>

\* C9: blocking recv_block looks at the block at the cursor before it polls,
\* polls only after a check found the block not USER-owned, goes back to the
\* check whatever poll() returned, and returns only from a check that finds
\* the block USER-owned, with that block and never an error; once the kernel
\* has marked the block at the cursor USER (which makes the descriptor
\* readable) the call returns.
BlockingRecvReturnsRipe ==
    /\ (rpc # "idle" /\ blocks[cur_idx].block_status % 2 = 1) ~> (rpc = "idle")
    /\ [][/\ (rpc = "idle" /\ rpc' # "idle") => rpc' = "check"
          /\ (rpc # "poll" /\ rpc' = "poll") =>
                rpc = "check" /\ blocks[cur_idx].block_status % 2 = 0 /\ handed' = handed
          /\ (rpc = "poll" /\ rpc' # "poll") => rpc' = "check"
          /\ (rpc # "idle" /\ rpc' = "idle") =>
                /\ rpc = "check"
                /\ blocks[cur_idx].block_status % 2 = 1
                /\ handed' = Append(handed, cur_idx)
                /\ views' = With(BlockView(cur_idx))]_vars

\* the call is parked in poll() and the kernel has just made the block at the
\* cursor ripe
PollerWoken ==
    /\ rpc = "poll"
    /\ blocks[cur_idx].block_status % 2 = 1
    /\ SockReadable
    /\ Len(handed) = 1

\* --------------------------------------------------------------- builder

\* the setup the builder's configuration asks for, in the order of the contract
ExpectedSetup ==
    <<"socket">>
    \o (IF cfg.non_blocking THEN <<"set_non_blocking">> ELSE <<>>)
    \o (IF cfg.promiscuous THEN <<"set_flag">> ELSE <<>>)
    \o <<"frame_nr", "PACKET_VERSION", "PACKET_RX_RING", "mmap", "bind", "PACKET_FANOUT">>
    \o (IF cfg.bpf THEN <<"set_bpf_filter">> ELSE <<>>)

\* C10: a builder run that succeeded has done exactly: open the socket, set
\* it non-blocking (build_async only), set IFF_PROMISC (promiscuous only),
\* derive frame_nr, PACKET_VERSION, PACKET_RX_RING, mmap, bind, PACKET_FANOUT,
\* attach the filter (only if there is one), in this order; and there is a
\* Ring (from build) or an AsyncRing (from build_async) only when the run has
\* succeeded, all of it done.
BuildsInOrder ==
    /\ bpc \in {"init", "done"} => calls = ExpectedSetup
    /\ built # "none" =>
          /\ bpc = "done"
          /\ calls = ExpectedSetup
          /\ built = IF cfg.non_blocking THEN "async_ring" ELSE "ring"
    /\ bpc = "done" => built # "none"

\* build_async of a promiscuous builder with a filter has succeeded
AsyncRingWithFilterBuilt ==
    /\ built = "async_ring"
    /\ bpc = "done"
    /\ cfg = [non_blocking |-> TRUE, promiscuous |-> TRUE, bpf |-> TRUE]
    /\ Len(calls) = 10

\* the steps of the builder that can fail with an error
FallibleSteps ==
    {"socket", "set_non_blocking", "set_flag", "PACKET_VERSION", "PACKET_RX_RING", "mmap",
     "bind", "PACKET_FANOUT", "set_bpf_filter"}

\* C11: when a step of the builder has failed (open, non-blocking, interface
\* flags, PACKET_VERSION, PACKET_RX_RING, mmap, bind, PACKET_FANOUT, filter),
\* the caller gets the error of that step, the failed step is the last one
\* made, nothing is done after it, and there is no Ring and no AsyncRing.
BuildErrorsPropagate ==
    /\ [](err.failed # "none" =>
             /\ err.returned = err.failed
             /\ bpc = "failed"
             /\ built = "none"
             /\ err.failed \in FallibleSteps => calls[Len(calls)] = err.failed)
    /\ [][err.failed # "none" =>
             /\ calls' = calls
             /\ built' = "none"
             /\ kern' = kern
             /\ err' = err]_vars

\* bind has failed in a builder that had PACKET_FANOUT and a filter still to do
BindFailedBeforeFilter ==
    /\ err.failed = "bind"
    /\ err.returned = "bind"
    /\ cfg.bpf
    /\ kern.fanout = -1
    /\ bpc = "failed"

\* C12: a name that resolves to no interface yields no Socket, so no builder
\* goes on with interface index 0 and no Ring is bound to index 0.
UnknownInterfaceYieldsNoSocket ==
    /\ bpc \in {"builder", "prepare", "init", "done"} => sock.if_index # 0
    /\ built # "none" => kern.bound_index # 0

\* C13: after the Ring (or AsyncRing) was dropped its descriptor is not open,
\* whether or not Sockets were taken with Ring::socket.
DroppedRingClosesFd == sock.dropped => sock.fd # "open"

\* C14: the word given to PACKET_FANOUT has pid & 0xFFFF in its low 16 bits
\* and the builder's fanout_method (HASH 0, LB 1, CPU 2) in its high 16 bits.
FanoutWordCarriesMethod ==
    kern.fanout # -1 =>
        /\ kern.fanout % 65536 = fan.pid % 65536
        /\ kern.fanout \div 65536 = fan.method

\* C15: the tp_frame_nr given to PACKET_RX_RING and kept in the Ring is the
\* exact quotient tp_block_size * tp_block_nr / tp_frame_size, whatever
\* tp_frame_nr the caller supplied and also when the product needs more than
\* 32 bits.
FrameNrIsExactQuotient ==
    kern.rx_ring_frame_nr # -1 =>
        /\ kern.rx_ring_frame_nr = (opts.tp_block_size * opts.tp_block_nr) \div opts.tp_frame_size
        /\ opts.tp_frame_nr = kern.rx_ring_frame_nr

\* --------------------------------------------------------- packet iterator

\* C16: a packet iterator over a block of num_pkts = n (0 included) yields
\* exactly n RawPackets: every next() before the n-th packet returns a
\* packet, and every next() after it returns None and leaves the iterator
\* as it was.
IterYieldsNumPkts ==
    /\ [](/\ ~it.panicked
          /\ Len(out) <= blk.num_pkts
          /\ it.ret = "None" => Len(out) = blk.num_pkts)
    /\ [][IF Len(out) < blk.num_pkts
          THEN Len(out') = Len(out) + 1 /\ it'.ret = "Some"
          ELSE /\ out' = out
               /\ it'.ret = "None"
               /\ it'.next_offset = it.next_offset
               /\ it'.cur_next_offset = it.cur_next_offset
               /\ it'.cur_idx = it.cur_idx
               /\ it'.count = it.count]_vars

\* a block of MaxRecs records walked to the end, and next() called again
ExhaustedAfterAll ==
    /\ blk.num_pkts = MaxRecs
    /\ Len(out) = MaxRecs
    /\ it.ret = "None"

\* where the k-th packet yielded was read
YieldedAt(k) == out[k].header

\* C17: the records visited form a chain: the first is at
\* offset_to_first_pkt, every next one at the offset of the one before plus
\* that one's tp_next_offset; the tp_next_offset of the last record is not
\* used, the walk ends at blk_len.
OffsetsFormChain ==
    /\ \A k \in 1 .. Len(out) : YieldedAt(k) \in DOMAIN blk.hdrs
    /\ \A k \in 1 .. Len(out) :
          YieldedAt(k) = IF k = 1
                         THEN blk.offset_to_first_pkt
                         ELSE YieldedAt(k - 1) + blk.hdrs[YieldedAt(k - 1)].tp_next_offset
    /\ (Len(out) = blk.num_pkts /\ blk.num_pkts > 0) => it.next_offset = blk.blk_len

\* a walk that has passed a last record whose tp_next_offset is not 0
LastNextOffsetPassed ==
    /\ blk.num_pkts = 2
    /\ Len(out) = 2
    /\ blk.hdrs[YieldedAt(2)].tp_next_offset # 0
    /\ it.next_offset = blk.blk_len

\* C18: the payload of a RawPacket is the bytes from offset + tp_mac to the
\* offset of the next record (to blk_len for the last record): a part of the
\* block's data with no byte of a following record in it.
PayloadEndsAtNextRecord ==
    \A k \in 1 .. Len(out) :
        /\ out[k].payload_from = out[k].header + blk.hdrs[out[k].header].tp_mac
        /\ out[k].payload_to = IF k < blk.num_pkts
                               THEN out[k].header + blk.hdrs[out[k].header].tp_next_offset
                               ELSE blk.blk_len
        /\ out[k].payload_from <= out[k].payload_to
        /\ out[k].payload_to <= blk.blk_len

\* C19: is_last() is true exactly when as many packets were yielded as the
\* block has: false after each of the first n - 1 packets of n, true after
\* the n-th.
IsLastIffAllYielded == IsLast(it) <=> (Len(out) = blk.num_pkts)

\* the last but one packet of MaxRecs was yielded
OnePacketLeft ==
    /\ blk.num_pkts = MaxRecs
    /\ Len(out) = MaxRecs - 1
    /\ it.ret = "Some"

\* ----------------------------------------------- buffer_saturation_threshold

\* how many probes in a row, from slot start on at stride step, find a ripe
\* block, k of them counted so far
RECURSIVE RipeProbes(_, _, _)
RipeProbes(start, step, k) ==
    IF k >= sat.nr THEN k
    ELSE IF ((start + k * step) % sat.nr) \in sat.ready
         THEN RipeProbes(start, step, k + 1)
         ELSE k

\* min(count * step, block_count) * 100 / block_count
SaturationOf(count, step) ==
    ((IF count * step > sat.nr THEN sat.nr ELSE count * step) * 100) \div sat.nr

\* C20: buffer_saturation_threshold(step_percent) is
\* min(count * step, block_count) * 100 / block_count with
\* step = max(1, block_count * step_percent / 100) and count the ripe blocks
\* found in a row when probing from the cursor at stride step: 0 when the
\* first block probed is KERNEL-owned.
SaturationCountsRipeProbes ==
    sat.ret # -1 =>
        LET step == IF (sat.nr * sat.step_percent) \div 100 < 1
                    THEN 1 ELSE (sat.nr * sat.step_percent) \div 100
        IN  /\ sat.ret = SaturationOf(RipeProbes(sat.cur, step, 0), step)
            /\ (sat.cur \notin sat.ready /\ ((sat.cur + step) % sat.nr) \notin sat.ready)
                   => sat.ret = 0

\* ---------------------------------------------------------------------------
\* C21: for one cursor, block count and step_percent below 50, a ring state
\* whose ripe blocks are all ripe in a second ring state never gets a larger
\* saturation than the second; every call returns, its value lies in 0..100,
\* and the call leaves the cursor and the status words as they were.
SaturationMonotone ==
    /\ []((/\ sat.ret >= 0
           /\ satb.ret >= 0
           /\ sat.nr = satb.nr
           /\ sat.cur = satb.cur
           /\ sat.step_percent = satb.step_percent
           /\ sat.step_percent < 50
           /\ sat.ready \subseteq satb.ready) => sat.ret <= satb.ret)
    /\ [](sat.ret \in (-1) .. 100 /\ satb.ret \in (-1) .. 100)
    /\ [][/\ sat'.ready = sat.ready
          /\ sat'.cur = sat.cur
          /\ satb'.ready = satb.ready
          /\ satb'.cur = satb.cur
          /\ blocks' = blocks
          /\ cur_idx' = cur_idx]_vars
    /\ <>(sat.ret >= 0 /\ satb.ret >= 0)

\* both calls returned, the second ring has more ripe blocks and a larger value
LargerRipeSetLargerValue ==
    /\ sat.ret >= 0
    /\ satb.ret >= 0
    /\ sat.ready # satb.ready
    /\ sat.ready \subseteq satb.ready
    /\ sat.ret < satb.ret

\* ---------------------------------------------------------------------------
\* bit k of a flag word
FlagBit(v, k) == (v \div (2 ^ k)) % 2

\* C22: after a successful build with promiscuous = true the interface flags
\* have the IFF_PROMISC bit (bit 8) set and every other bit as it was before
\* the build, on hosts of either byte order; as long as promiscuous is false
\* the builder has not written the interface flags.
PromiscuousSetsOneBit ==
    /\ (bpc = "done" /\ cfg.promiscuous) =>
          /\ ifc.writes = 1
          /\ FlagBit(ifc.flags, 8) = 1
          /\ \A k \in (0 .. 15) \ {8} : FlagBit(ifc.flags, k) = FlagBit(ifc.before, k)
          /\ ifc.flags \in 0 .. 65535
    /\ ~cfg.promiscuous => (ifc.writes = 0 /\ ifc.flags = ifc.before)

\* a little-endian host built a promiscuous ring on an interface that had
\* bit 15 set and IFF_PROMISC clear
PromiscuousBuiltLittleEndian ==
    /\ bpc = "done"
    /\ cfg.promiscuous
    /\ ~ifc.big_endian
    /\ ifc.before = 32783
    /\ ifc.flags = 33039

\* ---------------------------------------------------------------------------
\* C23: when the readiness layer reports an error to a waiting async
\* recv_block, the call ends and returns the error; that step and every step
\* of the call before it leave the cursor where it was, and no status word
\* changes during the call other than by the kernel filling a block.
ReadinessErrorReturned ==
    /\ [](ares = "err" => apc = "idle")
    /\ [][(apc = "await" /\ ares' = "err") =>
             /\ apc' = "idle"
             /\ blocks' = blocks
             /\ cur_idx' = cur_idx
             /\ handed' = handed
             /\ views' = views]_vars
    /\ [][(apc # "idle" /\ ~(apc' = "idle" /\ ares' = "block")) =>
             /\ cur_idx' = cur_idx
             /\ handed' = handed
             /\ \A s \in Slots :
                   blocks'[s] # blocks[s] =>
                       /\ s = kidx
                       /\ blocks[s].block_status = 0
                       /\ blocks'[s].block_status % 2 = 1]_vars

\* a call returned the error with no block handed out by it, although the
\* kernel had filled the cursor block meanwhile
ErrorReturnedWhileRipe ==
    /\ ares = "err"
    /\ apc = "idle"
    /\ blocks[cur_idx].block_status % 2 = 1
    /\ Len(handed) = 1

\* ---------------------------------------------------------------------------
\* C24: dropping the future of a recv_block that awaits readiness leaves the
\* cursor and every status word as they are; the cursor stays at the slot
\* after the last block handed out, so the next recv_block hands out the slot
\* the dropped call would have.
DroppedFutureChangesNothing ==
    /\ [][(apc = "await" /\ ares' = "dropped") =>
             /\ apc' = "idle"
             /\ blocks' = blocks
             /\ cur_idx' = cur_idx
             /\ handed' = handed]_vars
    /\ [][handed' # handed => handed' = Append(handed, cur_idx)]_vars
    /\ [](cur_idx = Len(handed) % NBlocks)

\* a pending call was dropped after an earlier one got a block, and the
\* cursor block has become ripe since
FutureDroppedBeforeRipe ==
    /\ ares = "dropped"
    /\ apc = "idle"
    /\ Len(handed) = 1
    /\ cur_idx = 1
    /\ blocks[cur_idx].block_status % 2 = 1

\* ---------------------------------------------------------------- Stream

\* a read that returned Ok put one slice into buf
OneSlicePerRead == [](sres = "ok" => Len(sbuf) = 1)

\* the slice of a read that returned Ok is the payload of one packet: from
\* the record's tp_mac on, up to the next record (blk_len for the last one)
SliceIsOnePayload ==
    [](sres = "ok" =>
          \A k \in 1 .. Len(sbuf) :
              /\ sbuf[k] = out[Len(out)]
              /\ sbuf[k].payload_from = sbuf[k].header + blk.hdrs[sbuf[k].header].tp_mac
              /\ sbuf[k].payload_to =
                    IF Len(out) < blk.num_pkts
                    THEN sbuf[k].header + blk.hdrs[sbuf[k].header].tp_next_offset
                    ELSE blk.blk_len)

\* blocks are taken in ring order, each when the one before was read to its
\* end, and the packets of a block come in the order of its records
StreamKeepsOrder ==
    /\ [][handed' # handed =>
             /\ handed' = Append(handed, cur_idx)
             /\ Len(out) = blk.num_pkts
             /\ out' = <<>>]_vars
    /\ [](\A k \in 1 .. Len(out) :
             out[k].header = IF k = 1
                             THEN blk.offset_to_first_pkt
                             ELSE out[k - 1].header + blk.hdrs[out[k - 1].header].tp_next_offset)
    /\ [][(out' # out /\ handed' = handed) => (Len(out') = Len(out) + 1 /\ sres' = "ok")]_vars

\* a read returns Pending only with no current block and a cursor block that
\* is not ripe, or that the kernel closed after the read looked at it (the
\* descriptor's event is then still to come)
SuspendsOnlyWithoutBlock ==
    [][(sres' = "pending" /\ sres # "pending") =>
          /\ CurBlock = {}
          /\ (blocks[cur_idx].block_status % 2 = 0 \/ sig)]_vars

\* a status word goes to TP_STATUS_KERNEL in the read that delivers the last
\* packet of its block, and in no other step
ReturnedWithLastPacket ==
    /\ [][(out' # out /\ Len(out') = blk'.num_pkts /\ handed' = handed) =>
             /\ blocks'[handed[Len(handed)]].block_status = 0
             /\ views' = EmptyBag
             /\ sres' = "ok"]_vars
    /\ [][\A s \in Slots :
             (blocks[s].block_status # 0 /\ blocks'[s].block_status = 0) =>
                 /\ out' # out
                 /\ Len(out') = blk.num_pkts
                 /\ Len(handed) > 0
                 /\ s = handed[Len(handed)]]_vars

\* C25: every read of the Stream that completes delivers exactly one packet
\* payload, blocks in ring order and packets in record order; a read suspends
\* only with no current block and a cursor block that is not ripe; a block's
\* status goes to TP_STATUS_KERNEL in the read that delivers its last packet.
StreamDeliversPackets ==
    /\ OneSlicePerRead
    /\ SliceIsOnePayload
    /\ StreamKeepsOrder
    /\ SuspendsOnlyWithoutBlock
    /\ ReturnedWithLastPacket

\* ---------------------------------------------------------------------------
\* C26: with the kernel filling KERNEL-owned slots in ring order and one
\* consumer that drops each block's consuming iterator before its next
\* recv_block, in every interleaving the blocks handed out are the blocks
\* filled, one hand-out per fill and in the order of the fills: the k-th
\* hand-out is the slot of the k-th fill, and the kernel never refills a slot
\* whose block has not been handed out.
FilledHandedOnceInOrder ==
    /\ Len(handed) <= Len(filled.slots)
    /\ \A k \in 1 .. Len(handed) : handed[k] = filled.slots[k]
    /\ Len(filled.slots) <= Len(handed) + NBlocks
    /\ \A k \in 1 .. Len(filled.slots) : filled.slots[k] = (k - 1) % NBlocks

\* the kernel has gone round the ring and the consumer has been handed the
\* first slot a second time, after its refill
RefilledSlotHandedAgain ==
    /\ filled.on
    /\ Len(handed) = NBlocks + 1
    /\ handed[NBlocks + 1] = handed[1]
    /\ Len(filled.slots) > Len(handed)

====
